---- MODULE Spec2Model ----
(***************************************************************************)
(* The REST trigger of qingcloudhx/contrib (trigger/rest/trigger.go):      *)
(* Trigger.Initialize builds the route table, PreflightHandler answers     *)
(* OPTIONS, and the closure returned by newActionHandler turns one request *)
(* into an Output, calls handler.Handle and writes the Reply.              *)
(*                                                                         *)
(* Text that the code takes apart or joins (header values, query values)   *)
(* is a sequence of tokens; bodies and messages are atoms, and the library *)
(* parsers (json, url.ParseQuery, multipart) are tables over them.         *)
(* A response is the log of the calls made on its http.ResponseWriter.     *)
(***************************************************************************)
EXTENDS Integers, Sequences, FiniteSets, TLC

\* Bounds of the model.
MaxHandlers == 2
NumRequests == 2

\* net/http status constants used by the handler.
StatusBadRequest == 400
StatusOK == 200

----------------------------------------------------------------------------
\* Go values of dynamic type (interface{}).
Nil == [t |-> "nil"]
StrV(s) == [t |-> "string", v |-> s]
IntV(n) == [t |-> "int", v |-> n]
MapV(m) == [t |-> "map", v |-> m]
ListV(s) == [t |-> "list", v |-> s]
EmptyMap == [k \in {} |-> Nil]

\* A path pattern is a sequence of segments: a literal or a named parameter.
Lit(s) == [seg |-> "lit", name |-> s]
Param(s) == [seg |-> "param", name |-> s]
PathA == <<Lit("a")>>
PathB == <<Lit("b"), Param("id")>>
Paths == {PathA, PathB}
Methods == {"GET", "post", "OPTIONS"}

\* strings.ToUpper on the method names of the model.
ToUpper(m) == IF m = "post" THEN "POST" ELSE m

\* Handler settings as metadata.MapToStruct sees them: valid = FALSE is a
\* settings map that MapToStruct rejects.
HandlerSettings == [method : Methods, path : Paths, valid : {TRUE}]
                     \cup {[method |-> "GET", path |-> PathA, valid |-> FALSE]}

RECURSIVE SeqsUpTo(_, _)
SeqsUpTo(S, n) ==
  IF n = 0 THEN {<<>>}
  ELSE LET shorter == SeqsUpTo(S, n - 1)
       IN shorter \cup {Append(s, x) : s \in {q \in shorter : Len(q) = n - 1}, x \in S}

----------------------------------------------------------------------------
\* Request inputs.

\* Content-Type header values, as token sequences.
CTForm == <<"application/x-www-form-urlencoded">>
CTJson == <<"application/json">>
CTJsonCharset == <<"application/json", "; charset=utf-8">>
CTMultipart == <<"multipart/form-data", "; boundary=x">>
CTPlain == <<"text/plain">>
CTEmbedded == <<"text/x; type=", "multipart/form-data">>
NoText == <<>>

\* Request bodies.
BEmpty == ""
BObject == "{}"
BTruncated == "{"
BForm == "a=1&a=2&b=x"
BBadEscape == "a=%zz"
BFiles == "--x: f=t.txt; g=u.bin"
BUnreadable == "--x: f=t.txt; g=<spilled file gone>"
BReadError == "<body read fails>"
Bodies == {BEmpty, BObject, BTruncated, BForm, BBadEscape, BFiles, BUnreadable,
           BReadError}

ReadErrorMsg == "unexpected EOF reading body"

\* strings.Join(values, ","): the values with a "," token between them.
RECURSIVE Join(_)
Join(values) ==
  IF Len(values) = 0 THEN NoText
  ELSE IF Len(values) = 1 THEN values[1]
  ELSE values[1] \o <<",">> \o Join(Tail(values))

\* strings.Contains(text, tok) for a one-token needle.
Contains(text, tok) == \E i \in 1..Len(text) : text[i] = tok

\* http.Header.Get: the first value of the key, "" when the key is absent.
HeaderGet(header, key) ==
  IF key \in DOMAIN header /\ Len(header[key]) > 0 THEN header[key][1] ELSE NoText

\* json.NewDecoder(body).Decode(&content): [err, value].
JsonDecode(body) ==
  IF body = BEmpty THEN [err |-> "EOF", value |-> Nil]
  ELSE IF body = BObject THEN [err |-> "", value |-> MapV(EmptyMap)]
  ELSE IF body = BTruncated THEN [err |-> "unexpected EOF", value |-> Nil]
  ELSE IF body = BReadError THEN [err |-> ReadErrorMsg, value |-> Nil]
  ELSE [err |-> "invalid character looking for beginning of value", value |-> Nil]

\* url.ParseQuery(body): [err, values], values mapping each key to its values.
ParseQuery(body) ==
  IF body = BEmpty THEN [err |-> "", values |-> EmptyMap]
  ELSE IF body = BForm THEN [err |-> "", values |-> [a |-> <<"1", "2">>, b |-> <<"x">>]]
  ELSE IF body = BBadEscape THEN [err |-> "invalid URL escape \"%zz\"", values |-> EmptyMap]
  ELSE IF body = BObject THEN [err |-> "", values |-> [k \in {"{}"} |-> <<"">>]]
  ELSE IF body = BTruncated THEN [err |-> "", values |-> [k \in {"{"} |-> <<"">>]]
  ELSE [err |-> "invalid semicolon separator in query", values |-> EmptyMap]

\* A multipart.FileHeader; openErr is the error of header.Open(), "" if none.
FileHeader(name, type, size, bytes, openErr) ==
  [fileName |-> name, fileType |-> type, size |-> size, bytes |-> bytes,
   openErr |-> openErr]

\* r.ParseMultipartForm(32): [err, file], file being r.MultipartForm.File.
ParseMultipartForm(contentType, body) ==
  IF contentType # CTMultipart
    THEN [err |-> "request Content-Type isn't multipart/form-data", file |-> EmptyMap]
  ELSE IF body = BReadError THEN [err |-> ReadErrorMsg, file |-> EmptyMap]
  ELSE IF body = BFiles
    THEN [err |-> "",
          file |-> [f |-> <<FileHeader("t.txt", "text/plain", 2, "AB", "")>>,
                    g |-> <<FileHeader("u.bin", "application/octet-stream", 1, "C", "")>>]]
  ELSE IF body = BUnreadable
    THEN [err |-> "",
          file |-> [f |-> <<FileHeader("t.txt", "text/plain", 2, "AB", "")>>,
                    g |-> <<FileHeader("u.bin", "application/octet-stream", 1, "C",
                                       "open multipart-1: no such file")>>]]
  ELSE [err |-> "multipart: NextPart: EOF", file |-> EmptyMap]

\* getFileDetails(key, header): [err, details].
getFileDetails(key, header) ==
  IF header.openErr # "" THEN [err |-> header.openErr, details |-> Nil]
  ELSE [err |-> "",
        details |-> MapV([key |-> StrV(key), fileName |-> StrV(header.fileName),
                          fileType |-> StrV(header.fileType), size |-> IntV(header.size),
                          file |-> StrV(header.bytes)])]

\* The orders in which a range over a Go map may visit its keys.
KeyOrders(m) ==
  {o \in [1..Cardinality(DOMAIN m) -> DOMAIN m] :
     \A i, j \in DOMAIN o : i # j => o[i] # o[j]}

\* The (key, header) pairs of the nested loop of lines 224-236, in visiting order.
RECURSIVE FileVisits(_, _)
FileVisits(file, order) ==
  IF Len(order) = 0 THEN <<>>
  ELSE [i \in 1..Len(file[order[1]]) |-> [key |-> order[1], header |-> file[order[1]][i]]]
       \o FileVisits(file, Tail(order))

----------------------------------------------------------------------------
\* The Content Decoder: the switch of lines 167-254.

\* Which arm of the switch a declared content type takes.
DecodeBranch(contentType) ==
  IF contentType = CTForm THEN "Form"
  ELSE IF contentType = CTJson THEN "Json"
  ELSE IF Contains(contentType, "multipart/form-data") THEN "Multipart"
  ELSE "Raw"

\* case "application/x-www-form-urlencoded"
DecodeForm(body) ==
  IF body = BReadError THEN [err |-> ReadErrorMsg, content |-> Nil]
  ELSE LET q == ParseQuery(body)
       IN IF q.err # "" THEN [err |-> q.err, content |-> Nil]
          ELSE [err |-> "",
                content |-> MapV([key \in DOMAIN q.values |-> StrV(q.values[key][1])])]

\* The JSON arm with every decode error taken for an empty body.
DecodeJsonLenient(body) == [err |-> "", content |-> JsonDecode(body).value]

\* The JSON arm without the io.EOF case.
DecodeJsonStrict(body) ==
  LET d == JsonDecode(body)
  IN IF d.err # "" THEN [err |-> d.err, content |-> Nil]
     ELSE [err |-> "", content |-> d.value]

\* case "application/json"
DecodeJson(body) ==
  LET d == JsonDecode(body)
  IN IF d.err # "" /\ d.err # "EOF" THEN [err |-> d.err, content |-> Nil]
     ELSE [err |-> "", content |-> d.value]

\* default, contentType containing "multipart/form-data"
DecodeMultipart(contentType, body, order) ==
  LET p == ParseMultipartForm(contentType, body)
      visits == FileVisits(p.file, order)
      got == [i \in DOMAIN visits |-> getFileDetails(visits[i].key, visits[i].header)]
      bad == {i \in DOMAIN got : got[i].err # ""}
  IN IF p.err # "" THEN [err |-> p.err, content |-> Nil]
     ELSE IF bad # {}
       THEN [err |-> got[CHOOSE i \in bad : \A j \in bad : i <= j].err, content |-> Nil]
     ELSE [err |-> "",
           content |-> MapV([body |-> Nil,
                             files |-> ListV([i \in DOMAIN got |-> got[i].details])])]

\* default, any other contentType
DecodeRaw(body) ==
  IF body = BReadError THEN [err |-> ReadErrorMsg, content |-> Nil]
  ELSE [err |-> "", content |-> StrV(body)]

\* The orders the multipart branch may iterate r.MultipartForm.File in.
MultipartOrders(contentType, body) == KeyOrders(ParseMultipartForm(contentType, body).file)

DecodeContent(contentType, body, order) ==
  LET b == DecodeBranch(contentType)
  IN IF b = "Form" THEN DecodeForm(body)
     ELSE IF b = "Json" THEN DecodeJson(body)
     ELSE IF b = "Multipart" THEN DecodeMultipart(contentType, body, order)
     ELSE DecodeRaw(body)

----------------------------------------------------------------------------
\* The http.ResponseWriter of a request: the log of the calls made on it.

HeaderSet(k, v) == [op |-> "Header.Set", k |-> k, v |-> v, code |-> 0]
WriteHeader(code) == [op |-> "WriteHeader", k |-> "", v |-> "", code |-> code]
Write(data) == [op |-> "Write", k |-> "", v |-> data, code |-> 0]

\* http.Error(w, msg, code): a plain-text reply carrying msg.
HttpError(w, msg, code) ==
  w \o <<HeaderSet("Content-Type", "text/plain; charset=utf-8"),
         HeaderSet("X-Content-Type-Options", "nosniff"),
         WriteHeader(code), Write(msg)>>

\* cors.WriteCorsActualRequestHeaders(w)
WriteCorsActualRequestHeaders(w) ==
  Append(w, HeaderSet("Access-Control-Allow-Origin", "*"))

\* cors.HandlePreflight(w, r): the allow headers when the origin is allowed,
\* and a success status with no body.
HandlePreflight(w, allowed) ==
  (IF allowed
     THEN w \o <<HeaderSet("Access-Control-Allow-Origin", "*"),
                 HeaderSet("Access-Control-Allow-Methods", "*")>>
     ELSE w) \o <<WriteHeader(StatusOK)>>

\* What a log amounts to on the wire.
Statuses(w) == SelectSeq(w, LAMBDA c : c.op = "WriteHeader")
BodyWrites(w) == SelectSeq(w, LAMBDA c : c.op = "Write")
HeaderValue(w, k) ==
  LET sets == SelectSeq(w, LAMBDA c : c.op = "Header.Set" /\ c.k = k)
  IN IF Len(sets) = 0 THEN "" ELSE sets[Len(sets)].v

----------------------------------------------------------------------------
\* The external handler and the Reply.

\* json.Unmarshal([]byte(t), &v) succeeds on these strings.
IsJSON(t) == t \in {"{}", "{\"x\":1}"}

\* json.NewEncoder(w).Encode(data) writes this text.
JsonEncode(data) ==
  IF data = MapV([x |-> IntV(1)]) THEN "{\"x\":1}" ELSE "null"

\* What handler.Handle may return: an error, or a result map with its "code"
\* and "data" entries (Nil when the key is missing).
ResultCodes == {Nil, IntV(201), IntV(0 - 1), StrV("abc")}
ResultData == {Nil, StrV("hello"), StrV("{\"x\":1}"), MapV([x |-> IntV(1)])}
HandlerOutcomes ==
  {[err |-> "handler failed", code |-> Nil, data |-> Nil]}
    \cup [err : {""}, code : ResultCodes, data : ResultData]
ConcOutcomes ==
  {[err |-> "handler failed", code |-> Nil, data |-> Nil],
   [err |-> "", code |-> IntV(201), data |-> StrV("hello")],
   [err |-> "", code |-> Nil, data |-> Nil]}

\* Reply.FromMap(results): code coerced to an int (a missing code is 0), data
\* copied; [err, code, data].
FromMap(results) ==
  IF results.code.t = "int" THEN [err |-> "", code |-> results.code.v, data |-> results.data]
  ELSE IF results.code.t = "nil" THEN [err |-> "", code |-> 0, data |-> results.data]
  ELSE [err |-> "unable to coerce code to int", code |-> 0, data |-> Nil]

\* The reply written without defaulting an unset code to 200.
WriteReplyNoDefault(w, reply) ==
  IF reply.data # Nil
    THEN w \o <<HeaderSet("Content-Type",
                          IF reply.data.t = "string" /\ ~IsJSON(reply.data.v)
                            THEN "text/plain; charset=UTF-8"
                            ELSE "application/json; charset=UTF-8"),
                WriteHeader(reply.code),
                Write(IF reply.data.t = "string" THEN reply.data.v
                      ELSE JsonEncode(reply.data))>>
    ELSE IF reply.code > 0 THEN Append(w, WriteHeader(reply.code))
    ELSE Append(w, WriteHeader(StatusOK))

\* Lines 271-309: the calls that write reply to w.
WriteReply(w, reply) ==
  IF reply.data # Nil
    THEN LET code == IF reply.code = 0 THEN StatusOK ELSE reply.code
         IN IF reply.data.t = "string"
              THEN w \o <<HeaderSet("Content-Type",
                                    IF IsJSON(reply.data.v)
                                      THEN "application/json; charset=UTF-8"
                                      ELSE "text/plain; charset=UTF-8"),
                          WriteHeader(code), Write(reply.data.v)>>
              ELSE w \o <<HeaderSet("Content-Type", "application/json; charset=UTF-8"),
                          WriteHeader(code), Write(JsonEncode(reply.data))>>
    ELSE IF reply.code > 0 THEN Append(w, WriteHeader(reply.code))
    ELSE Append(w, WriteHeader(StatusOK))

----------------------------------------------------------------------------
\* State.

VARIABLES
  handlers,   \* ctx.GetHandlers(): the handler settings Initialize iterates
  initPc,     \* where Initialize (and then the server) stands
  idx,        \* the next handler of the loop of lines 72-92
  pathMap,    \* pathMap of Initialize
  router,     \* the registrations held by the httprouter
  inputs,     \* the requests clients may send
  outcomes,   \* what the installed handlers may return
  live,       \* the connections the server serves
  reqs,       \* per connection: the request in flight and its response
  outs        \* the Output objects of the action handlers

vars == <<handlers, initPc, idx, pathMap, router, inputs, outcomes, live, reqs, outs>>

Requests == 1..NumRequests

\* A registration: the preflight responder, or the closure of newActionHandler
\* with the method and handler it captured.
Preflight == [kind |-> "preflight", method |-> "", handler |-> 0]
ActionHandler(method, i) == [kind |-> "action", method |-> method, handler |-> i]
Registration(method, path, h) == [method |-> method, path |-> path, h |-> h]

\* httprouter refuses a second handle for the same method and path.
Registered(rt, method, path) == \E g \in rt : g.method = method /\ g.path = path

\* A request path matches a pattern segment by segment.
Matches(pattern, path) ==
  /\ Len(pattern) = Len(path)
  /\ \A i \in 1..Len(pattern) : pattern[i].seg = "lit" => pattern[i].name = path[i]

\* The httprouter.Params of a match.
PathParams(pattern, path) ==
  LET ks == {i \in 1..Len(pattern) : pattern[i].seg = "param"}
  IN [k \in {pattern[i].name : i \in ks} |->
        path[CHOOSE i \in ks : pattern[i].name = k]]

Routes(rt, method, path) == {g \in rt : g.method = method /\ Matches(g.path, path)}

NoInput == [method |-> "", path |-> <<>>, query |-> EmptyMap, header |-> EmptyMap,
            body |-> ""]
NoOutcome == [err |-> "", code |-> Nil, data |-> Nil]
NoRoute == Registration("", <<>>, Preflight)
EmptyOut == [method |-> "", pathParams |-> EmptyMap, queryParams |-> EmptyMap,
             headers |-> EmptyMap, content |-> Nil]
Idle == [pc |-> "idle", in |-> NoInput, route |-> NoRoute, branch |-> "", order |-> <<>>,
         errAt |-> "", err |-> "", outcome |-> NoOutcome, calls |-> 0,
         passed |-> EmptyOut, w |-> <<>>, writeFailed |-> FALSE]

\* The requests of the model.
HeaderMaps(cts) == {EmptyMap} \cup {[k \in {"Content-Type"} |-> <<ct>>] : ct \in cts}
WideInputs ==
  [method : Methods, path : {<<"a">>, <<"b", "7">>}, query : {EmptyMap},
   header : HeaderMaps({CTForm, CTJson, CTJsonCharset, CTMultipart, CTPlain, CTEmbedded}),
   body : Bodies]
ConcInputs ==
  {[method |-> "GET", path |-> <<"a">>, query |-> [q |-> <<<<"1">>, <<"2">>>>],
    header |-> [k \in {"Content-Type"} |-> <<CTJson, CTPlain>>], body |-> BObject],
   [method |-> "post", path |-> <<"a">>, query |-> EmptyMap,
    header |-> [k \in {"Content-Type"} |-> <<CTMultipart>>], body |-> BFiles],
   [method |-> "GET", path |-> <<"b", "7">>, query |-> [q |-> <<<<"3">>>>],
    header |-> EmptyMap, body |-> BForm],
   [method |-> "post", path |-> <<"a">>, query |-> EmptyMap,
    header |-> [k \in {"Content-Type"} |-> <<CTJson>>], body |-> BTruncated],
   [method |-> "OPTIONS", path |-> <<"a">>, query |-> EmptyMap, header |-> EmptyMap,
    body |-> BEmpty]}

Setting(method, path) == [method |-> method, path |-> path, valid |-> TRUE]
ConcHandlers ==
  {<<Setting("GET", PathA), Setting("post", PathA), Setting("GET", PathB)>>,
   <<Setting("GET", PathA), Setting("OPTIONS", PathA)>>,
   <<[method |-> "GET", path |-> PathA, valid |-> FALSE]>>}

----------------------------------------------------------------------------
\* Trigger.Initialize, Trigger.Start.

InitCommon ==
  /\ initPc = "loop"
  /\ idx = 1
  /\ pathMap = {}
  /\ router = {}
  /\ reqs = [r \in Requests |-> Idle]
  /\ outs = [r \in Requests |-> EmptyOut]

Init ==
  /\ handlers \in SeqsUpTo(HandlerSettings, MaxHandlers)
  /\ inputs = WideInputs
  /\ outcomes = HandlerOutcomes
  /\ live = {1}
  /\ InitCommon

InitConc ==
  /\ handlers \in ConcHandlers
  /\ inputs = ConcInputs
  /\ outcomes = ConcOutcomes
  /\ live = Requests
  /\ InitCommon

\* The unconditional registration that line 90 keeps as a comment.
AlwaysRegisterPreflight(pm, path) == TRUE

\* Line 85: the preflight responder is registered on the first sight of a path.
ShouldRegisterPreflight(pm, path) == path \notin pm

\* router.OPTIONS handing the action handler of the route to the OPTIONS method.
ActionAsPreflight(path, method, i) ==
  Registration("OPTIONS", path, ActionHandler(ToUpper(method), i))

\* Line 87: what router.OPTIONS registers for the path of handler i.
PreflightRegistration(path, method, i) == Registration("OPTIONS", path, Preflight)

\* Line 91: what router.Handle registers for handler i.
HandlerRegistration(path, method, i) ==
  Registration(method, path, ActionHandler(ToUpper(method), i))

\* One iteration of the loop of lines 72-92 on settings MapToStruct accepts.
Register ==
  /\ initPc = "loop"
  /\ idx <= Len(handlers)
  /\ handlers[idx].valid
  /\ LET s == handlers[idx]
         pre == ShouldRegisterPreflight(pathMap, s.path)
         panicO == pre /\ Registered(router, "OPTIONS", s.path)
         r1 == IF pre /\ ~panicO
                 THEN router \cup {PreflightRegistration(s.path, s.method, idx)}
                 ELSE router
         panicH == ~panicO /\ Registered(r1, s.method, s.path)
         r2 == IF panicO \/ panicH THEN r1
               ELSE r1 \cup {HandlerRegistration(s.path, s.method, idx)}
     IN /\ pathMap' = (IF pre THEN pathMap \cup {s.path} ELSE pathMap)
        /\ router' = r2
        /\ initPc' = (IF panicO THEN "panic in router.OPTIONS"
                      ELSE IF panicH THEN "panic in router.Handle" ELSE "loop")
        /\ idx' = (IF panicO \/ panicH THEN idx ELSE idx + 1)
  /\ UNCHANGED <<handlers, inputs, outcomes, live, reqs, outs>>

\* Lines 75-78: MapToStruct rejects the settings and Initialize returns the error.
SettingsError ==
  /\ initPc = "loop"
  /\ idx <= Len(handlers)
  /\ ~handlers[idx].valid
  /\ initPc' = "error"
  /\ UNCHANGED <<handlers, idx, pathMap, router, inputs, outcomes, live, reqs, outs>>

\* Lines 94-109: the loop is over; NewServer gives the server or an error.
NewServer ==
  /\ initPc = "loop"
  /\ idx > Len(handlers)
  /\ \E ok \in BOOLEAN : initPc' = (IF ok THEN "initialized" ELSE "error")
  /\ UNCHANGED <<handlers, idx, pathMap, router, inputs, outcomes, live, reqs, outs>>

Start ==
  /\ initPc = "initialized"
  /\ initPc' = "running"
  /\ UNCHANGED <<handlers, idx, pathMap, router, inputs, outcomes, live, reqs, outs>>

----------------------------------------------------------------------------
\* Serving a request.

UnchangedInit ==
  UNCHANGED <<handlers, initPc, idx, pathMap, router, inputs, outcomes, live>>

\* The router hands a request to the registration that matches it.
Accept(r) ==
  /\ initPc = "running"
  /\ r \in live
  /\ reqs[r].pc = "idle"
  /\ \E in \in inputs :
       /\ Routes(router, in.method, in.path) # {}
       /\ reqs' = [reqs EXCEPT ![r] =
            [Idle EXCEPT !.pc = "routed", !.in = in,
                         !.route = CHOOSE g \in Routes(router, in.method, in.path) : TRUE]]
  /\ UNCHANGED outs
  /\ UnchangedInit

\* PreflightHandler.handleCorsPreflight
handleCorsPreflight(r) ==
  /\ reqs[r].pc = "routed"
  /\ reqs[r].route.h.kind = "preflight"
  /\ \E allowed \in BOOLEAN :
       reqs' = [reqs EXCEPT ![r].pc = "done",
                            ![r].w = HandlePreflight(reqs[r].w, allowed)]
  /\ UNCHANGED outs
  /\ UnchangedInit

\* One Output shared by every invocation, as if allocated outside the closure.
SharedOutSlot(r) == 1

\* Line 147: each invocation of the action handler allocates its own Output.
OutSlot(r) == r

\* The action handler without its CORS call.
NoCorsWriter(w) == w

\* Lines 144-145: the first calls the action handler makes on w.
BeginWriter(w) == WriteCorsActualRequestHeaders(w)

\* Lines 147-165: the Output before its content is decoded.
NewOutput(method, pattern, in) ==
  [method |-> method,
   pathParams |-> PathParams(pattern, in.path),
   queryParams |-> [k \in DOMAIN in.query |-> Join(in.query[k])],
   headers |-> [k \in DOMAIN in.header |-> Join(in.header[k])],
   content |-> Nil]

\* Lines 140-165.
Begin(r) ==
  /\ reqs[r].pc = "routed"
  /\ reqs[r].route.h.kind = "action"
  /\ reqs' = [reqs EXCEPT ![r].pc = "decode", ![r].w = BeginWriter(reqs[r].w)]
  /\ outs' = [outs EXCEPT ![OutSlot(r)] =
                NewOutput(reqs[r].route.h.method, reqs[r].route.path, reqs[r].in)]
  /\ UnchangedInit

\* The decode arms without their return statements.
AlwaysHandle(d) == "handle"

\* Where the handler goes after the decode: it returns on a decode error.
AfterDecode(d) == IF d.err # "" THEN "done" ELSE "handle"

\* Lines 167-254.
Decode(r) ==
  /\ reqs[r].pc = "decode"
  /\ LET contentType == HeaderGet(reqs[r].in.header, "Content-Type")
         body == reqs[r].in.body
         branch == DecodeBranch(contentType)
     IN \E order \in (IF branch = "Multipart" THEN MultipartOrders(contentType, body)
                      ELSE {<<>>}) :
          LET d == DecodeContent(contentType, body, order)
          IN /\ reqs' = [reqs EXCEPT
                  ![r].pc = AfterDecode(d),
                  ![r].branch = branch,
                  ![r].order = order,
                  ![r].errAt = IF d.err # "" THEN "decode" ELSE "",
                  ![r].err = d.err,
                  ![r].w = IF d.err # "" THEN HttpError(@, d.err, StatusBadRequest) ELSE @]
             /\ outs' = (IF d.err # "" THEN outs
                         ELSE [outs EXCEPT ![OutSlot(r)].content = d.content])
  /\ UnchangedInit

\* Lines 256-261: handler.Handle(context.Background(), out).
Handle(r) ==
  /\ reqs[r].pc = "handle"
  /\ \E oc \in outcomes :
       reqs' = [reqs EXCEPT
         ![r].pc = IF oc.err # "" THEN "done" ELSE "reply",
         ![r].calls = @ + 1,
         ![r].passed = outs[OutSlot(r)],
         ![r].outcome = oc,
         ![r].errAt = IF oc.err # "" THEN "handler" ELSE @,
         ![r].err = IF oc.err # "" THEN oc.err ELSE @,
         ![r].w = IF oc.err # "" THEN HttpError(@, oc.err, StatusBadRequest) ELSE @]
  /\ UNCHANGED outs
  /\ UnchangedInit

\* A failed write answered with an error response.
ErrorAfterWriteFailure(w, failed) ==
  IF failed THEN HttpError(w, "write failed", StatusBadRequest) ELSE w

\* Lines 291-293 and 298-300: a failure of w.Write or Encode is logged, and the
\* handler returns without another call on w.
AfterWrite(w, failed) == w

\* Lines 263-310: the Reply is built from the results and written; a failing
\* w.Write or Encode is logged.
Reply(r) ==
  /\ reqs[r].pc = "reply"
  /\ LET reply == FromMap(reqs[r].outcome)
     IN \E failed \in (IF reply.err = "" /\ reply.data # Nil THEN BOOLEAN ELSE {FALSE}) :
          reqs' = [reqs EXCEPT
            ![r].pc = "done",
            ![r].errAt = IF reply.err # "" THEN "mapping" ELSE @,
            ![r].err = reply.err,
            ![r].writeFailed = failed,
            ![r].w = IF reply.err # "" THEN HttpError(@, reply.err, StatusBadRequest)
                     ELSE AfterWrite(WriteReply(@, reply), failed)]
  /\ UNCHANGED outs
  /\ UnchangedInit

\* The handler has returned: the connection is ready for its next request.
Finish(r) ==
  /\ reqs[r].pc = "done"
  /\ reqs' = [reqs EXCEPT ![r] = Idle]
  /\ outs' = [outs EXCEPT ![OutSlot(r)] = EmptyOut]
  /\ UnchangedInit

Next ==
  \/ Register
  \/ SettingsError
  \/ NewServer
  \/ Start
  \/ \E r \in Requests :
       \/ Accept(r)
       \/ handleCorsPreflight(r)
       \/ Begin(r)
       \/ Decode(r)
       \/ Handle(r)
       \/ Reply(r)
       \/ Finish(r)

Spec == Init /\ [][Next]_vars
SpecConc == InitConc /\ [][Next]_vars

----------------------------------------------------------------------------
\* Properties.

Action(r) == reqs[r].pc # "idle" /\ reqs[r].route.h.kind = "action"
Done(r) == reqs[r].pc = "done"
Served == initPc = "running"

\* The handlers whose loop iteration has completed.
Processed == 1..(idx - 1)
OptionsOn(path) == {g \in router : g.method = "OPTIONS" /\ g.path = path}

\* C1: whatever handler settings Initialize has processed, the router holds
\* exactly one OPTIONS registration, the preflight responder, for each path
\* among them and none for other paths, and no handler on a path already
\* seen makes Initialize register the preflight responder again.
C1_OnePreflightPerPath ==
  /\ \A i \in Processed :
       /\ Cardinality(OptionsOn(handlers[i].path)) = 1
       /\ \A g \in OptionsOn(handlers[i].path) : g.h = Preflight
  /\ \A g \in router : g.method = "OPTIONS" => g.path \in pathMap
  /\ initPc # "panic in router.OPTIONS"

\* Two handlers with different methods on one path have been registered.
C1_Witness ==
  /\ idx = 3
  /\ handlers[1].path = handlers[2].path
  /\ handlers[1].method # handlers[2].method
  /\ Cardinality(OptionsOn(handlers[1].path)) = 1
  /\ Cardinality({g \in router : g.path = handlers[1].path}) = 3

\* The declared content type and the body of the request of r.
ContentTypeOf(r) == HeaderGet(reqs[r].in.header, "Content-Type")
BodyOf(r) == reqs[r].in.body

\* C2: an OPTIONS request for a registered path is routed to the preflight
\* responder and answered by it alone: handler.Handle is never invoked for
\* it, no Output is built and nothing of the reply encoder is written.
C2_PreflightAlone ==
  \A r \in Requests :
    (reqs[r].pc # "idle" /\ reqs[r].in.method = "OPTIONS") =>
      /\ reqs[r].route.h = Preflight
      /\ reqs[r].pc \in {"routed", "done"}
      /\ reqs[r].calls = 0
      /\ reqs[r].passed = EmptyOut
      /\ outs[r] = EmptyOut
      /\ reqs[r].outcome = NoOutcome
      /\ Done(r) => reqs[r].w \in {HandlePreflight(<<>>, a) : a \in BOOLEAN}

\* An OPTIONS request has been answered with the allow headers.
C2_Witness ==
  \E r \in Requests :
    /\ Done(r)
    /\ reqs[r].in.method = "OPTIONS"
    /\ reqs[r].w = HandlePreflight(<<>>, TRUE)

\* C3 as claimed: every non-preflight request that has been handled saw
\* exactly one invocation of handler.Handle.
C3_HandledExactlyOnce ==
  \A r \in Requests : (Action(r) /\ Done(r)) => reqs[r].calls = 1

\* The body of a request fails to decode in the arm its content type selects:
\* a read failure, a malformed form, JSON other than an empty body, a
\* malformed multipart body or an unreadable file part.
BodyFails(contentType, body) ==
  IF contentType = CTForm THEN body = BReadError \/ ParseQuery(body).err # ""
  ELSE IF contentType = CTJson THEN JsonDecode(body).err \notin {"", "EOF"}
  ELSE IF Contains(contentType, "multipart/form-data")
    THEN LET p == ParseMultipartForm(contentType, body)
         IN \/ p.err # ""
            \/ \E k \in DOMAIN p.file : \E i \in DOMAIN p.file[k] :
                 p.file[k][i].openErr # ""
  ELSE body = BReadError

\* C3, amended: handler.Handle is invoked at most once per non-preflight
\* request; a handled request saw exactly one invocation when its body
\* decoded and none when the decode failed.
C3_HandledOnceIfDecoded ==
  \A r \in Requests :
    Action(r) =>
      /\ reqs[r].calls <= 1
      /\ Done(r) =>
           reqs[r].calls = (IF BodyFails(ContentTypeOf(r), BodyOf(r)) THEN 0 ELSE 1)

\* A request whose body failed to decode has ended without the handler.
C3_Witness ==
  \E r \in Requests :
    /\ Action(r) /\ Done(r)
    /\ reqs[r].errAt = "decode"
    /\ reqs[r].calls = 0
    /\ ContentTypeOf(r) = CTJson /\ BodyOf(r) = BTruncated

\* C4: a non-preflight request whose body fails to decode, or whose handler
\* returns an error, ends with exactly one status, 400, and the error's
\* message as body; the failed step ran once and no other status is written.
C4_ErrorsAre400 ==
  \A r \in Requests :
    (Action(r) /\ Done(r)) =>
      LET failsDecode == BodyFails(ContentTypeOf(r), BodyOf(r))
          failsHandle == ~failsDecode /\ reqs[r].outcome.err # ""
      IN /\ failsDecode => (reqs[r].errAt = "decode" /\ reqs[r].calls = 0)
         /\ failsHandle =>
              (reqs[r].errAt = "handler" /\ reqs[r].err = reqs[r].outcome.err
                 /\ reqs[r].calls = 1)
         /\ (failsDecode \/ failsHandle) =>
              /\ reqs[r].err # ""
              /\ Statuses(reqs[r].w) = <<WriteHeader(StatusBadRequest)>>
              /\ BodyWrites(reqs[r].w) = <<Write(reqs[r].err)>>

\* A malformed JSON body and a failing handler have each been answered.
C4_Witness ==
  \E r \in Requests :
    /\ Action(r) /\ Done(r)
    /\ reqs[r].errAt = "handler"
    /\ Statuses(reqs[r].w) = <<WriteHeader(StatusBadRequest)>>
    /\ BodyWrites(reqs[r].w) = <<Write("handler failed")>>

\* C5: in every response of an action handler, the CORS allow-origin header
\* is set before any status is written, and a finished response carries it.
C5_CorsBeforeStatus ==
  \A r \in Requests :
    Action(r) =>
      /\ \A i \in DOMAIN reqs[r].w :
           reqs[r].w[i].op = "WriteHeader" =>
             \E j \in 1..(i - 1) :
               reqs[r].w[j] = HeaderSet("Access-Control-Allow-Origin", "*")
      /\ Done(r) =>
           /\ Len(Statuses(reqs[r].w)) >= 1
           /\ HeaderValue(reqs[r].w, "Access-Control-Allow-Origin") = "*"

\* A result-mapping error has been answered, with the header.
C5_Witness ==
  \E r \in Requests :
    /\ Action(r) /\ Done(r)
    /\ reqs[r].errAt = "mapping"
    /\ HeaderValue(reqs[r].w, "Access-Control-Allow-Origin") = "*"

\* C6: the response written for a reply (code, data) follows the table: no
\* data gives status code (200 when code is 0) and no body; data gives status
\* code (200 when code is 0), content type JSON unless data is a string that
\* is not JSON, then text/plain, and a string is written as it is.
C6_ReplyTable ==
  \A r \in Requests :
    (Action(r) /\ Done(r) /\ reqs[r].errAt = "") =>
      LET reply == FromMap(reqs[r].outcome)
          status == Statuses(reqs[r].w)
          body == BodyWrites(reqs[r].w)
          ctype == HeaderValue(reqs[r].w, "Content-Type")
      IN /\ (reply.data = Nil /\ reply.code > 0) =>
              (status = <<WriteHeader(reply.code)>> /\ body = <<>>)
         /\ (reply.data = Nil /\ reply.code = 0) =>
              (status = <<WriteHeader(200)>> /\ body = <<>>)
         /\ reply.data # Nil =>
              /\ status = <<WriteHeader(IF reply.code = 0 THEN 200 ELSE reply.code)>>
              /\ Len(body) = 1
              /\ (reply.data.t # "string" \/ IsJSON(reply.data.v)) =>
                   ctype = "application/json; charset=UTF-8"
              /\ (reply.data.t = "string" /\ ~IsJSON(reply.data.v)) =>
                   ctype = "text/plain; charset=UTF-8"
              /\ reply.data.t = "string" => body = <<Write(reply.data.v)>>

\* The reply {code: 0, data: "hello"} has been written as 200, text/plain.
C6_Witness ==
  \E r \in Requests :
    /\ Action(r) /\ Done(r) /\ reqs[r].errAt = ""
    /\ reqs[r].outcome.code = Nil /\ reqs[r].outcome.data = StrV("hello")
    /\ Statuses(reqs[r].w) = <<WriteHeader(200)>>
    /\ HeaderValue(reqs[r].w, "Content-Type") = "text/plain; charset=UTF-8"
    /\ BodyWrites(reqs[r].w) = <<Write("hello")>>

\* C8: an empty body declared application/json is no decode error: the
\* request goes on to the handler with absent content; a 400 of the JSON arm
\* comes only from a body that is not empty.
C8_EmptyJsonIsNoError ==
  \A r \in Requests :
    (Action(r) /\ reqs[r].pc \notin {"routed", "decode"} /\ ContentTypeOf(r) = CTJson) =>
      /\ BodyOf(r) = BEmpty =>
           /\ reqs[r].errAt # "decode"
           /\ reqs[r].pc = "handle" \/ reqs[r].calls = 1
           /\ reqs[r].pc = "handle" => outs[r].content = Nil
           /\ reqs[r].calls = 1 => reqs[r].passed.content = Nil
      /\ reqs[r].errAt = "decode" => BodyOf(r) # BEmpty

\* The handler has been invoked for an empty JSON body.
C8_Witness ==
  \E r \in Requests :
    /\ Action(r)
    /\ ContentTypeOf(r) = CTJson /\ BodyOf(r) = BEmpty
    /\ reqs[r].calls = 1
    /\ reqs[r].passed.content = Nil

\* The variant the rules of C9 give: exact matches, then a prefix match.
PrefixRule(contentType) ==
  IF contentType = CTForm THEN "Form"
  ELSE IF contentType = CTJson THEN "Json"
  ELSE IF Len(contentType) > 0 /\ contentType[1] = "multipart/form-data" THEN "Multipart"
  ELSE "Raw"

\* C9 as claimed: the arm that decodes a request is the one the prefix rule
\* gives for its declared content type.
C9_PrefixSelectsVariant ==
  \A r \in Requests :
    (Action(r) /\ reqs[r].branch # "") => reqs[r].branch = PrefixRule(ContentTypeOf(r))

\* C7 as claimed: two requests with the same declared content type and the
\* same body, both decoded, hand the same content to their handlers, file
\* entries in the same order.
C7_DecodeDeterministic ==
  \A r1, r2 \in Requests :
    (/\ Action(r1) /\ Action(r2)
     /\ reqs[r1].calls = 1 /\ reqs[r2].calls = 1
     /\ ContentTypeOf(r1) = ContentTypeOf(r2)
     /\ BodyOf(r1) = BodyOf(r2))
      => reqs[r1].passed.content = reqs[r2].passed.content

\* What a request handled alone hands to its handler, given the order in which
\* its multipart files were visited.
AloneOutput(in, route, order) ==
  [NewOutput(route.h.method, route.path, in) EXCEPT
     !.content = DecodeContent(HeaderGet(in.header, "Content-Type"), in.body, order).content]

\* The responses a request handled alone may get, given that order and what
\* its handler returned.
AloneResponses(in, route, order, outcome) ==
  IF route.h.kind = "preflight" THEN {HandlePreflight(<<>>, a) : a \in BOOLEAN}
  ELSE LET w0 == WriteCorsActualRequestHeaders(<<>>)
           d == DecodeContent(HeaderGet(in.header, "Content-Type"), in.body, order)
           reply == FromMap(outcome)
       IN IF d.err # "" THEN {HttpError(w0, d.err, StatusBadRequest)}
          ELSE IF outcome.err # "" THEN {HttpError(w0, outcome.err, StatusBadRequest)}
          ELSE IF reply.err # "" THEN {HttpError(w0, reply.err, StatusBadRequest)}
          ELSE {WriteReply(w0, reply)}

\* Each request has the Output and the response it would have alone.
AsIfAlone ==
  \A r \in Requests :
    /\ reqs[r].calls = 1 =>
         reqs[r].passed = AloneOutput(reqs[r].in, reqs[r].route, reqs[r].order)
    /\ Done(r) =>
         reqs[r].w \in AloneResponses(reqs[r].in, reqs[r].route, reqs[r].order,
                                      reqs[r].outcome)

\* A step changes the request and the Output of one connection at most.
OneRequestPerStep ==
  \A r1, r2 \in Requests :
    r1 # r2 =>
      \/ reqs'[r1] = reqs[r1] /\ outs'[r1] = outs[r1]
      \/ reqs'[r2] = reqs[r2] /\ outs'[r2] = outs[r2]

\* The route table stays as Initialize left it.
RouterFrozen == initPc \in {"initialized", "running"} => router' = router

\* C10: under any interleaving of concurrent requests, each request hands its
\* handler the Output, and gets the response, it would have if handled alone;
\* no step touches the state of two requests, and the route table does not
\* change once Initialize has returned.
C10_RequestsIndependent ==
  /\ []AsIfAlone
  /\ [][OneRequestPerStep /\ RouterFrozen]_vars

\* Two requests are in flight at once, interleaved, one already past its
\* handler and the other decoded after the first began.
C10_Witness ==
  \E r1, r2 \in Requests :
    /\ r1 # r2
    /\ Done(r1) /\ reqs[r1].calls = 1
    /\ reqs[r2].pc = "reply"
    /\ reqs[r1].in # reqs[r2].in
    /\ reqs[r1].passed.queryParams = [q |-> <<"1", ",", "2">>]
    /\ reqs[r2].passed.content.t = "map"

\* C11: an action handler commits the response status exactly once: none is
\* written while the request is still being handled, each ending branch
\* (decode error, handler error, mapping error, string data, other data, no
\* data) leaves exactly one, and a failed body write or JSON encoding is only
\* logged: the one status stays the reply's own, with no error response.
C11_StatusCommittedOnce ==
  \A r \in Requests :
    Action(r) =>
      /\ ~Done(r) => Len(Statuses(reqs[r].w)) = 0
      /\ Done(r) => Len(Statuses(reqs[r].w)) = 1
      /\ Len(BodyWrites(reqs[r].w)) <= 1
      /\ (Done(r) /\ reqs[r].errAt # "") =>
           Statuses(reqs[r].w) = <<WriteHeader(StatusBadRequest)>>
      /\ reqs[r].writeFailed =>
           LET reply == FromMap(reqs[r].outcome)
           IN /\ Done(r) /\ reqs[r].errAt = "" /\ reply.data # Nil
              /\ Statuses(reqs[r].w) =
                   <<WriteHeader(IF reply.code = 0 THEN StatusOK ELSE reply.code)>>
              /\ reqs[r].w[Len(reqs[r].w)].op = "Write"

\* The JSON encoding of a reply failed after its status 201 was committed.
C11_Witness ==
  \E r \in Requests :
    /\ Action(r) /\ Done(r)
    /\ reqs[r].writeFailed
    /\ reqs[r].outcome.data = MapV([x |-> IntV(1)])
    /\ Statuses(reqs[r].w) = <<WriteHeader(201)>>

====
